---- MODULE Spec2Model ----
(***************************************************************************)
(* A model of urbanpy's geometry helpers (urbanpy/geom/geom.py) and of the   *)
(* duration-bin helper (urbanpy/utils/utils.py).                             *)
(*                                                                           *)
(* One behaviour is one call of one function: Init draws the function and    *)
(* its inputs, the actions run the function's body.  heap holds the dataset  *)
(* objects the caller passed in (by reference, as Python does), passed is    *)
(* their value at call time, ret is what the call returned.                  *)
(*                                                                           *)
(* A dataset is a sequence of rows; a row is a record with its index label,  *)
(* its geometry and its columns (attrs, a function from column names to      *)
(* cells, where the columns can grow).  A cell is NaN (unset) or <<v>>.      *)
(***************************************************************************)
EXTENDS Integers, Sequences, FiniteSets, TLC

VARIABLES fn, args, heap, passed, pc, ret, ix, out

vars == <<fn, args, heap, passed, pc, ret, ix, out>>

(* ------------------------------ bounds --------------------------------- *)
MaxTicks == 50      \* durations are multiples of 2.5 minutes up to 125 minutes
MaxSeries == 2      \* length of a duration series
MaxCoord == 2       \* longitudes and latitudes are 0..MaxCoord
MaxPoints == 2      \* rows of a point dataset
MaxAtom == 1        \* finest grid cells are 0..MaxAtom
MaxRes == 1         \* resolutions are 0..MaxRes
MaxCity == 2        \* geometries of a city
MaxRows == 3        \* rows of a polygon dataset

(* ------------------------------ helpers -------------------------------- *)
NaN == <<>>
None == <<>>
NoValue == <<"no value">>

Min2(a, b) == IF a <= b THEN a ELSE b

SeqMax(s) == CHOOSE m \in {s[k] : k \in DOMAIN s} : \A k \in DOMAIN s : s[k] <= m
SeqMin(s) == CHOOSE m \in {s[k] : k \in DOMAIN s} : \A k \in DOMAIN s : m <= s[k]

SeqsUpTo(S, n) == UNION {[1..k -> S] : k \in 0..n}
NonEmptySeqsUpTo(S, n) == UNION {[1..k -> S] : k \in 1..n}

\* s[:n] of Python for n >= 0
Prefix(s, n) == SubSeq(s, 1, Min2(n, Len(s)))

(* ===================== utils.create_duration_labels ==================== *)
\* durations are held in half minutes, so that ceil() has something to round
DurationValues == {5 * k : k \in 0..MaxTicks}

Ceil(halves) == (halves + 1) \div 2

default_bins == <<0, 15, 30, 45, 60, 90, 120>>
default_labels == <<"De 0 a 15", "De 15 a 30", "De 30 a 45", "De 45 a 60",
                    "De 60 a 90", "De 90 a 120", "Mas de 120">>

\* sorted(set(bins_)) after bins_.insert(0, m)
SortedSet(S) == [k \in 1..Cardinality(S) |->
                    CHOOSE x \in S : Cardinality({y \in S : y < x}) = k - 1]

SortedBins(m) == SortedSet({default_bins[k] : k \in DOMAIN default_bins} \cup {m})

\* list.index, 0-based
IndexOf(s, x) == (CHOOSE k \in DOMAIN s : s[k] = x /\ \A j \in 1..(k - 1) : s[j] # x) - 1

\* the mistake of never appending the maximum
NeverExtended(m, i) == default_bins

\* the default_bins list after the conditional append
ExtendedBins(m, i) ==
    IF i + 1 >= Len(default_bins) /\ m # default_bins[Len(default_bins)]
    THEN Append(default_bins, m)
    ELSE default_bins

\* the mistake of slicing the labels like the edges
LabelsUpToOneMore(i) == Prefix(default_labels, i + 1)

CustomLabels(i) == Prefix(default_labels, i)

create_duration_labels(durations) ==
    LET max_duration_raw == SeqMax(durations)
        max_duration_asint == Ceil(max_duration_raw)
        bins_ == SortedBins(max_duration_asint)
        i == IndexOf(bins_, max_duration_asint)
    IN  [custom_bins |-> Prefix(ExtendedBins(max_duration_asint, i), i + 1),
         custom_labels |-> CustomLabels(i)]

InitDurations ==
    /\ fn = "create_duration_labels"
    /\ \E d \in NonEmptySeqsUpTo(DurationValues, MaxSeries) :
          /\ heap = [durations |-> d]
          /\ passed = [durations |-> d]
    /\ args = <<>>
    /\ pc = "call"
    /\ ret = NoValue
    /\ ix = 0
    /\ out = <<>>

CreateDurationLabels ==
    /\ fn = "create_duration_labels"
    /\ pc = "call"
    /\ ret' = create_duration_labels(heap.durations)
    /\ pc' = "returned"
    /\ UNCHANGED <<fn, args, heap, passed, ix, out>>

(* ========================= geom.filter_population ====================== *)
Coords == 0..MaxCoord

\* a reference geometry: the unit square whose lower left corner is (x, y),
\* held as its bounds
UnitSquare(x, y) == [minx |-> x, miny |-> y, maxx |-> x + 1, maxy |-> y + 1]

Squares == {UnitSquare(x, y) : x \in 0..(MaxCoord - 1), y \in 0..(MaxCoord - 1)}

\* a reference polygon collection: one geometry, or two
PolygonCollections == {<<a>> : a \in Squares} \cup {<<a, b>> : a \in Squares, b \in Squares}

\* GeoSeries.total_bounds
total_bounds(geoms) ==
    [minx |-> SeqMin([k \in DOMAIN geoms |-> geoms[k].minx]),
     miny |-> SeqMin([k \in DOMAIN geoms |-> geoms[k].miny]),
     maxx |-> SeqMax([k \in DOMAIN geoms |-> geoms[k].maxx]),
     maxy |-> SeqMax([k \in DOMAIN geoms |-> geoms[k].maxy])]

\* the mistake of leaving the ends out
BetweenExclusive(v, lo, hi) == lo < v /\ v < hi

\* Series.between, inclusive on both ends
Between(v, lo, hi) == lo <= v /\ v <= hi

\* gpd.points_from_xy
PointXY(x, y) == <<"POINT", x, y>>

filter_population(pop_df, polygon_gdf) ==
    LET b == total_bounds(polygon_gdf)
        limits_filter(r) == Between(r.longitude, b.minx, b.maxx)
                            /\ Between(r.latitude, b.miny, b.maxy)
        filtered_points == SelectSeq(pop_df, limits_filter)
    IN  [k \in DOMAIN filtered_points |->
            [index |-> filtered_points[k].index,
             longitude |-> filtered_points[k].longitude,
             latitude |-> filtered_points[k].latitude,
             population |-> filtered_points[k].population,
             geometry |-> PointXY(filtered_points[k].longitude,
                                  filtered_points[k].latitude)]]

\* a point dataset as read from a file: rows labelled 0, 1, ... in order
Labelled(rows) == [k \in DOMAIN rows |->
                      [index |-> k - 1,
                       longitude |-> rows[k].longitude,
                       latitude |-> rows[k].latitude,
                       population |-> rows[k].population]]

InitFilter ==
    /\ fn = "filter_population"
    /\ \E p \in SeqsUpTo([longitude : Coords, latitude : Coords, population : {1}], MaxPoints),
          g \in PolygonCollections :
          /\ heap = [pop_df |-> Labelled(p), polygon_gdf |-> g]
          /\ passed = [pop_df |-> Labelled(p), polygon_gdf |-> g]
    /\ args = <<>>
    /\ pc = "call"
    /\ ret = NoValue
    /\ ix = 0
    /\ out = <<>>

FilterPopulation ==
    /\ fn = "filter_population"
    /\ pc = "call"
    /\ ret' = filter_population(heap.pop_df, heap.polygon_gdf)
    /\ pc' = "returned"
    /\ UNCHANGED <<fn, args, heap, passed, ix, out>>

(* ============================ geom.gen_hexagons ======================== *)
\* The finest cells of the grid are 0..MaxAtom; a polygon is known by the set
\* of finest cells whose centre it covers (none, for a polygon smaller than a
\* cell).  A geometry of the city is a Polygon or a MultiPolygon of two parts
\* that do not overlap; the polygons of two geometries may overlap.
Atoms == 0..MaxAtom

Polygons == SUBSET Atoms

Geometries == {<<p>> : p \in Polygons}
              \cup {g \in Polygons \X Polygons : g[1] \cap g[2] = {}}

RECURSIVE Pow2(_)
Pow2(n) == IF n = 0 THEN 1 ELSE 2 * Pow2(n - 1)

\* the identifier of the cell of resolution res that holds the finest cell a
CellOf(res, a) == <<res, a \div Pow2(MaxRes - res)>>

\* h3.polyfill: the set of cells of the resolution that cover the polygon
polyfill(poly, res) == {CellOf(res, a) : a \in poly}

\* city.explode().reset_index(drop=True): one row per part, in order
RECURSIVE Explode(_)
Explode(city) ==
    IF city = <<>> THEN <<>> ELSE Head(city) \o Explode(Tail(city))

\* the order in which Python walks the set polyfill returned
IterationOrder(S, descending) ==
    [k \in 1..Cardinality(S) |->
        CHOOSE h \in S :
            Cardinality({g \in S : IF descending THEN g[2] > h[2] ELSE g[2] < h[2]}) = k - 1]

\* h3.h3_to_geo: (lat, lon) of the centre of the cell
h3_to_geo(h) == <<10 * h[1] + 1, 3 * h[2] + 1>>

\* h3.h3_to_geo_boundary: the (lat, lon) vertices of the cell
h3_to_geo_boundary(h) ==
    LET c == h3_to_geo(h)
    IN  <<<<c[1] - 1, c[2]>>, <<c[1], c[2] + 1>>, <<c[1] + 1, c[2]>>, <<c[1], c[2] - 1>>>>

\* bound.reverse()
Reverse2(pair) == <<pair[2], pair[1]>>

\* Point(centroid_lon, centroid_lat)
CentroidOf(h) == <<"POINT", h3_to_geo(h)[2], h3_to_geo(h)[1]>>

\* Polygon(h3_geo_boundary) after every vertex was reversed
BoundaryOf(h) ==
    <<"POLYGON", [k \in DOMAIN h3_to_geo_boundary(h) |-> Reverse2(h3_to_geo_boundary(h)[k])]>>

\* h3_indexes after the loop over the polygons of city_poly
RECURSIVE h3_indexes(_, _, _)
h3_indexes(city_poly, resolution, descending) ==
    IF city_poly = <<>> THEN <<>>
    ELSE IterationOrder(polyfill(Head(city_poly), resolution), descending)
         \o h3_indexes(Tail(city_poly), resolution, descending)

\* the lists h3_centroids and h3_polygons, appended to along with h3_indexes
h3_centroids(indexes) == [k \in DOMAIN indexes |-> CentroidOf(indexes[k])]

h3_polygons(indexes) == [k \in DOMAIN indexes |-> BoundaryOf(indexes[k])]

\* gpd.GeoDataFrame(h3_indexes, geometry=...): column 0 and the geometry
HexFrame(indexes, geometry) ==
    [k \in DOMAIN indexes |->
        [index |-> k - 1, id |-> indexes[k], geometry |-> geometry[k]]]

\* the mistake of not dropping the duplicates
KeepAll(rows) == rows

\* DataFrame.drop_duplicates(): a row goes when an earlier row has the same
\* values in every column; the rows kept keep their index labels
drop_duplicates(rows) ==
    LET dup(k) == \E j \in 1..(k - 1) :
                     rows[j].id = rows[k].id /\ rows[j].geometry = rows[k].geometry
        kept == {k \in DOMAIN rows : ~dup(k)}
        nth(n) == CHOOSE k \in kept : Cardinality({j \in kept : j < k}) = n - 1
    IN  [n \in 1..Cardinality(kept) |-> rows[nth(n)]]

gen_hexagons(resolution, city, descending) ==
    LET city_poly == Explode(city)
        indexes == h3_indexes(city_poly, resolution, descending)
    IN  [city_hexagons |-> drop_duplicates(HexFrame(indexes, h3_polygons(indexes))),
         city_centroids |-> drop_duplicates(HexFrame(indexes, h3_centroids(indexes)))]

InitHexagons ==
    /\ fn = "gen_hexagons"
    /\ \E c \in SeqsUpTo(Geometries, MaxCity) :
          /\ heap = [city |-> c]
          /\ passed = [city |-> c]
    /\ args \in [resolution : 0..MaxRes, descending : BOOLEAN]
    /\ pc = "call"
    /\ ret = NoValue
    /\ ix = 0
    /\ out = <<>>

GenHexagons ==
    /\ fn = "gen_hexagons"
    /\ pc = "call"
    /\ ret' = gen_hexagons(args.resolution, heap.city, args.descending)
    /\ pc' = "returned"
    /\ UNCHANGED <<fn, args, heap, passed, ix, out>>

(* =========================== geom.merge_shape_hex ====================== *)
\* Two neighbouring hexagons, A and B.  A point lies inside one of them, on
\* the edge they share, or outside both.
Cells == {"A", "B"}

Places == [inside : Cells, touches : {{}}]
          \cup {[inside |-> "none", touches |-> Cells], [inside |-> "none", touches |-> {}]}

PopValues == {10, 20}

ReducerNames == {"sum", "min", "max", "mean"}

\* the reducers the docstring of merge_shape_hex allows
SupportedReducers == {"sum", "min", "max"}

AggColumns == {"population_2015", "population_2020"}

\* the aggregation maps: at least one column, each with a reducer name
AggMaps == UNION {[K -> ReducerNames] : K \in (SUBSET AggColumns) \ {{}}}

\* a point dataset: rows labelled 0, 1, ... with two population columns
ShapeFrame(places, values) ==
    [k \in DOMAIN places |->
        [index |-> k - 1,
         geometry |-> places[k],
         attrs |-> [c \in AggColumns |->
                      IF c = "population_2015" THEN <<values[k]>> ELSE <<values[k] + 1>>]]]

\* a hexagon dataset, as gen_hexagons gives it: at least one cell, distinct
\* cells, an id column and no column of the points; the rows are labelled in
\* order or in reverse order
HexFrames ==
    {[k \in DOMAIN cs |->
        [index |-> IF rev THEN Len(cs) - k ELSE k - 1,
         geometry |-> cs[k],
         attrs |-> [c \in {"id"} |-> <<cs[k]>>]]] :
     cs \in {c \in NonEmptySeqsUpTo(Cells, Cardinality(Cells)) :
                \A a, b \in DOMAIN c : a # b => c[a] # c[b]},
     rev \in BOOLEAN}

\* the spatial predicate of sjoin(shape, hex, op=op): left is the point,
\* right is the hexagon
Predicate(op, place, cell) ==
    CASE op = "intersects" -> place.inside = cell \/ cell \in place.touches
      [] op = "within" -> place.inside = cell
      [] op = "contains" -> FALSE

RECURSIVE Flatten(_)
Flatten(ss) == IF ss = <<>> THEN <<>> ELSE Head(ss) \o Flatten(Tail(ss))

\* gpd.sjoin(shape, hex, how=how, op=op).  inner: a row per matched (point,
\* hexagon) pair, carrying the point's columns, index_right and the hexagon's
\* columns.  left: also a row for every unmatched point, index_right unset.
\* right: the rows are keyed by the hexagon's index and carry index_left;
\* there is no index_right column.
sjoin(shape, hex, how, op) ==
    LET matchesOf(k) == SelectSeq(hex, LAMBDA h : Predicate(op, shape[k].geometry, h.geometry))
        pointsOf(j) == SelectSeq(shape, LAMBDA p : Predicate(op, p.geometry, hex[j].geometry))
        pair(p, h) == ("index_right" :> <<h.index>>) @@ p.attrs @@ h.attrs
        alone(p) == ("index_right" :> NaN) @@ p.attrs @@ [c \in DOMAIN hex[1].attrs |-> NaN]
        riap(h, p) == ("index_left" :> <<p.index>>) @@ p.attrs @@ h.attrs
        enola(h) == ("index_left" :> NaN) @@ [c \in AggColumns |-> NaN] @@ h.attrs
        leftRows(k) ==
            IF matchesOf(k) = <<>>
            THEN IF how = "left" THEN <<alone(shape[k])>> ELSE <<>>
            ELSE [j \in DOMAIN matchesOf(k) |-> pair(shape[k], matchesOf(k)[j])]
        rightRows(j) ==
            IF pointsOf(j) = <<>>
            THEN <<enola(hex[j])>>
            ELSE [k \in DOMAIN pointsOf(j) |-> riap(hex[j], pointsOf(j)[k])]
    IN  IF how = "right"
        THEN [columns |-> {"index_left"} \cup AggColumns \cup DOMAIN hex[1].attrs,
              rows |-> Flatten([j \in DOMAIN hex |-> rightRows(j)])]
        ELSE [columns |-> {"index_right"} \cup AggColumns \cup DOMAIN hex[1].attrs,
              rows |-> Flatten([k \in DOMAIN shape |-> leftRows(k)])]

RECURSIVE SumSeq(_)
SumSeq(s) == IF s = <<>> THEN 0 ELSE Head(s) + SumSeq(Tail(s))

\* a pandas reduction over the values of one group; the mean is held as the
\* pair (sum, count)
Reduce(name, values) ==
    CASE name = "sum" -> <<SumSeq(values)>>
      [] name = "min" -> <<SeqMin(values)>>
      [] name = "max" -> <<SeqMax(values)>>
      [] name = "mean" -> <<SumSeq(values), Len(values)>>

\* joined.groupby('index_right').agg(agg): one row per label of index_right
\* (rows whose label is unset are left out), labels ascending
groupby_agg(joined, agg) ==
    LET labelled == {k \in DOMAIN joined.rows : joined.rows[k]["index_right"] # NaN}
        labels == {joined.rows[k]["index_right"][1] : k \in labelled}
        index == SortedSet(labels)
        group(l, c) == LET rs == SelectSeq(joined.rows, LAMBDA r : r["index_right"] = <<l>>)
                       IN  [k \in DOMAIN rs |-> rs[k][c][1]]
    IN  [index |-> index,
         cols |-> [c \in DOMAIN agg |->
                     [n \in DOMAIN index |-> Reduce(agg[c], group(index[n], c))]]]

\* the mistake of writing by position: the n-th value goes to the n-th row
SetByPosition(frame, labels, key, values) ==
    [k \in DOMAIN frame |->
        [frame[k] EXCEPT !.attrs =
            (key :> (IF k \in DOMAIN values THEN values[k]
                     ELSE IF key \in DOMAIN frame[k].attrs THEN frame[k].attrs[key] ELSE NaN))
            @@ frame[k].attrs]]

\* frame.loc[labels, key] = values: the column is added when it is missing,
\* and the row labelled labels[n] takes values[n]
LocSet(frame, labels, key, values) ==
    [k \in DOMAIN frame |->
        [frame[k] EXCEPT !.attrs =
            (key :> (IF \E n \in DOMAIN labels : labels[n] = frame[k].index
                     THEN values[CHOOSE n \in DOMAIN labels : labels[n] = frame[k].index]
                     ELSE IF key \in DOMAIN frame[k].attrs THEN frame[k].attrs[key] ELSE NaN))
            @@ frame[k].attrs]]

\* for key in agg.keys(): ret_hex.loc[hex_merge.index, key] = hex_merge[key].values
RECURSIVE WriteBack(_, _, _)
WriteBack(ret_hex, hex_merge, keys) ==
    IF keys = {} THEN ret_hex
    ELSE LET key == CHOOSE c \in keys : TRUE
         IN  WriteBack(LocSet(ret_hex, hex_merge.index, key, hex_merge.cols[key]),
                       hex_merge, keys \ {key})

\* no check of the reducer names is made: any name goes to groupby().agg().
\* groupby('index_right') raises KeyError when the join result has no such
\* column.
merge_shape_hex(hex, shape, how, op, agg) ==
    LET joined == sjoin(shape, hex, how, op)
    IN  IF "index_right" \notin joined.columns
        THEN [status |-> "raised", value |-> <<"KeyError", "index_right">>]
        ELSE [status |-> "returned",
              value |-> WriteBack(hex, groupby_agg(joined, agg), DOMAIN agg)]

\* the mistake of writing to the caller's hex
AliasOf(hex, ret_hex) == ret_hex

\* ret_hex = hex.copy(): the writes go to the copy, the caller's hex keeps
\* its value
CopyOf(hex, ret_hex) == hex

InitMerge ==
    /\ fn = "merge_shape_hex"
    /\ \E n \in 0..MaxPoints :
         \E places \in [1..n -> Places], values \in [1..n -> PopValues], h \in HexFrames :
            /\ heap = [hex |-> h, shape |-> ShapeFrame(places, values)]
            /\ passed = [hex |-> h, shape |-> ShapeFrame(places, values)]
    /\ args \in [how : {"inner", "left", "right"},
                 op : {"intersects", "contains", "within"},
                 agg : AggMaps]
    /\ pc = "call"
    /\ ret = NoValue
    /\ ix = 0
    /\ out = <<>>

MergeShapeHex ==
    /\ fn = "merge_shape_hex"
    /\ pc = "call"
    /\ LET r == merge_shape_hex(heap.hex, heap.shape, args.how, args.op, args.agg)
       IN  /\ pc' = r.status
           /\ ret' = r.value
           /\ heap' = [heap EXCEPT !.hex = IF r.status = "returned"
                                           THEN CopyOf(heap.hex, r.value) ELSE heap.hex]
    /\ UNCHANGED <<fn, args, passed, ix, out>>

(* ========================= geom.osmnx_graph_download =================== *)
\* the statistics osmnx computes: basic_stats always returns BasicKeys,
\* extended_stats returns diameter only when ecc is set
BasicKeys == {"n", "m"}

ExtendedKeys(ecc) == IF ecc THEN {"pagerank_max", "diameter"} ELSE {"pagerank_max"}

StatCode(stat) == CASE stat = "n" -> 1 [] stat = "m" -> 2
                    [] stat = "pagerank_max" -> 3 [] stat = "diameter" -> 4

\* ox.basic_stats(graph) and ox.extended_stats(graph, ...): a value per key,
\* decided by the graph of the row's polygon
b_stats(geometry) == [s \in BasicKeys |-> <<10 * geometry[2] + StatCode(s)>>]

ext_stats(geometry, ecc) == [s \in ExtendedKeys(ecc) |-> <<10 * geometry[2] + StatCode(s)>>]

\* dict.get: None for a missing key
Get(dict, key) == IF key \in DOMAIN dict THEN dict[key] ELSE None

\* lists of distinct names, as the caller writes them
Requests(S) == {r \in SeqsUpTo(S, Cardinality(S)) : \A a, b \in DOMAIN r : a # b => r[a] # r[b]}

\* a polygon dataset: rows labelled 0, 1, ... with a name column
PolygonFrame(n) ==
    [k \in 1..n |-> [index |-> k - 1,
                     geometry |-> <<"POLYGON", k>>,
                     attrs |-> [c \in {"name"} |-> <<k>>]]]

\* gdf.loc[index, stat] = value, on the row of one label
SetCell(gdf, index, stat, value) == LocSet(gdf, <<index>>, stat, <<value>>)

\* the assignments of one row, in the order the two loops make them
StatWrites(row, basic_stats, extended_stats, ecc) ==
    [k \in DOMAIN basic_stats |-> <<basic_stats[k], Get(b_stats(row.geometry), basic_stats[k])>>]
    \o [k \in DOMAIN extended_stats |->
          <<extended_stats[k], Get(ext_stats(row.geometry, ecc), extended_stats[k])>>]

RECURSIVE ApplyWrites(_, _, _)
ApplyWrites(gdf, index, writes) ==
    IF writes = <<>> THEN gdf
    ELSE ApplyWrites(SetCell(gdf, index, Head(writes)[1], Head(writes)[2]), index, Tail(writes))

\* what the libraries do on one row: the graph download, one of the two
\* statistics calls or the k-th assignment raises, or nothing does
Outcomes(nwrites) ==
    {<<"graph">>, <<"basic_stats">>, <<"extended_stats">>, <<"ok">>}
    \cup {<<"write", k>> : k \in 1..nwrites}

\* the body of the try block on the row at position k: the dataset after
\* it, and the exception it raised, if any
TryRow(gdf, k, outcome, basic_stats, extended_stats, ecc) ==
    LET writes == StatWrites(gdf[k], basic_stats, extended_stats, ecc)
    IN  CASE outcome[1] = "ok" ->
               [gdf |-> ApplyWrites(gdf, gdf[k].index, writes), err |-> None]
          [] outcome[1] = "write" ->
               [gdf |-> ApplyWrites(gdf, gdf[k].index, Prefix(writes, outcome[2] - 1)),
                err |-> <<"write", writes[outcome[2]][1]>>]
          [] OTHER -> [gdf |-> gdf, err |-> outcome]

\* the mistake of ending the loop at the first exception
StopAfterError(done, n) == n

\* except Exception: print and pass; the loop goes on with the next row
ContinueAfterError(done, n) == done + 1

InitNetwork ==
    /\ fn = "osmnx_graph_download"
    /\ \E n \in 0..MaxRows :
          /\ heap = [gdf |-> PolygonFrame(n)]
          /\ passed = [gdf |-> PolygonFrame(n)]
    /\ args \in [basic_stats : Requests(BasicKeys),
                 extended_stats : Requests(ExtendedKeys(TRUE)),
                 ecc : BOOLEAN]
    /\ pc = "call"
    /\ ret = NoValue
    /\ ix = 0
    /\ out = <<>>

\* one iteration of the loop over gdf.iterrows(); ix rows are behind
NetworkRow ==
    /\ fn = "osmnx_graph_download"
    /\ pc = "call"
    /\ ix < Len(heap.gdf)
    /\ \E outcome \in Outcomes(Len(args.basic_stats) + Len(args.extended_stats)) :
          LET r == TryRow(heap.gdf, ix + 1, outcome,
                          args.basic_stats, args.extended_stats, args.ecc)
          IN  /\ heap' = [heap EXCEPT !.gdf = r.gdf]
              /\ IF r.err = None
                 THEN /\ out' = out
                      /\ ix' = ix + 1
                 ELSE /\ out' = Append(out, <<heap.gdf[ix + 1].index, r.err>>)
                      /\ ix' = ContinueAfterError(ix, Len(heap.gdf))
    /\ UNCHANGED <<fn, args, passed, pc, ret>>

\* return gdf: the caller gets the object it passed in
NetworkReturn ==
    /\ fn = "osmnx_graph_download"
    /\ pc = "call"
    /\ ix >= Len(heap.gdf)
    /\ pc' = "returned"
    /\ ret' = <<"ref", "gdf">>
    /\ UNCHANGED <<fn, args, heap, passed, ix, out>>

(* ================================ claims =============================== *)
Returned(f) == fn = f /\ pc = "returned"

Logged(index) == \E k \in DOMAIN out : out[k][1] = index

Requested == {args.basic_stats[k] : k \in DOMAIN args.basic_stats}
             \cup {args.extended_stats[k] : k \in DOMAIN args.extended_stats}

\* what the library computed for a statistic of a row, None when it did not
LibraryValue(row, stat) ==
    IF stat \in {args.extended_stats[k] : k \in DOMAIN args.extended_stats}
    THEN Get(ext_stats(row.geometry, args.ecc), stat)
    ELSE Get(b_stats(row.geometry), stat)

\* C1: osmnx_graph_download lets no exception escape: whatever rows raise
\* (graph construction, basic statistics, extended statistics, write-back),
\* the call never ends by raising, it returns only after every row was visited,
\* the failures are logged in row order, and every row that did not raise
\* holds a column for every requested statistic with the value the library gave.
C1_NoExceptionEscapesBatch ==
    fn = "osmnx_graph_download" =>
        /\ pc # "raised"
        /\ ix <= Len(heap.gdf)
        /\ \A a, b \in DOMAIN out : a < b => out[a][1] < out[b][1]
        /\ pc = "returned" =>
              /\ ix = Len(heap.gdf)
              /\ Len(heap.gdf) = Len(passed.gdf)
              /\ \A k \in DOMAIN heap.gdf :
                    ~Logged(heap.gdf[k].index) =>
                        \A stat \in Requested :
                            /\ stat \in DOMAIN heap.gdf[k].attrs
                            /\ heap.gdf[k].attrs[stat] = LibraryValue(heap.gdf[k], stat)

\* a batch of three rows whose second row raised returned, and the third row
\* holds the requested statistic n
C1_Witness ==
    /\ Returned("osmnx_graph_download")
    /\ Len(heap.gdf) = 3
    /\ out = <<<<1, <<"graph">>>>>>
    /\ "n" \in Requested
    /\ heap.gdf[1].attrs["n"] = <<11>>
    /\ heap.gdf[3].attrs["n"] = <<31>>

\* C2: a row of osmnx_graph_download whose processing raised at any step ends
\* with none of its requested statistic columns set and its other columns
\* unchanged.
C2_FailedRowHasNoStatistic ==
    Returned("osmnx_graph_download") =>
        \A k \in DOMAIN heap.gdf :
            Logged(heap.gdf[k].index) =>
                /\ \A stat \in Requested :
                      stat \in DOMAIN heap.gdf[k].attrs => heap.gdf[k].attrs[stat] = NaN
                /\ heap.gdf[k].index = passed.gdf[k].index
                /\ heap.gdf[k].geometry = passed.gdf[k].geometry
                /\ heap.gdf[k].attrs["name"] = passed.gdf[k].attrs["name"]

JoinModes == {"inner", "left", "right"}

\* C3: for every join mode in {inner, left, right} and every predicate,
\* merge_shape_hex returns a dataset with exactly the rows and geometries of
\* the hexagon dataset, in order, and the only columns it adds or overwrites
\* are the keys of the aggregation map.
C3_HexagonRowsPreserved ==
    (fn = "merge_shape_hex" /\ pc # "call" /\ args.how \in JoinModes) =>
        /\ pc = "returned"
        /\ Len(ret) = Len(passed.hex)
        /\ \A k \in DOMAIN passed.hex :
              /\ ret[k].index = passed.hex[k].index
              /\ ret[k].geometry = passed.hex[k].geometry
              /\ DOMAIN ret[k].attrs = DOMAIN passed.hex[k].attrs \cup DOMAIN args.agg
              /\ \A c \in DOMAIN passed.hex[k].attrs \ DOMAIN args.agg :
                    ret[k].attrs[c] = passed.hex[k].attrs[c]

\* C4: merge_shape_hex called with an aggregation map that names a reducer
\* outside {sum, min, max} fails with an error and never returns a dataset.
C4_UnsupportedReducerFails ==
    (fn = "merge_shape_hex" /\ \E c \in DOMAIN args.agg : args.agg[c] \notin SupportedReducers)
        => pc # "returned"

\* the values, in row order, of column c of the points the predicate joins to
\* a cell
JoinedValues(cell, c) ==
    LET ps == SelectSeq(passed.shape, LAMBDA p : Predicate(args.op, p.geometry, cell))
    IN  [k \in DOMAIN ps |-> ps[k].attrs[c][1]]

\* C5: with reducers in {sum, min, max}, every cell with at least one joined
\* point holds, in its own row and in each mapped column, the reducer applied
\* to the values of all the points joined to it, and every cell with no joined
\* point has the column unset.
C5_AggregationCorrect ==
    (Returned("merge_shape_hex") /\ \A c \in DOMAIN args.agg : args.agg[c] \in SupportedReducers) =>
        \A k \in DOMAIN passed.hex : \A c \in DOMAIN args.agg :
            LET values == JoinedValues(passed.hex[k].geometry, c)
                cell == ret[k].attrs[c]
            IN  /\ ret[k].geometry = passed.hex[k].geometry
                /\ values = <<>> => cell = NaN
                /\ values # <<>> =>
                      CASE args.agg[c] = "sum" -> cell = <<SumSeq(values)>>
                        [] args.agg[c] = "min" ->
                             /\ \A j \in DOMAIN values : cell[1] <= values[j]
                             /\ \E j \in DOMAIN values : cell[1] = values[j]
                        [] args.agg[c] = "max" ->
                             /\ \A j \in DOMAIN values : cell[1] >= values[j]
                             /\ \E j \in DOMAIN values : cell[1] = values[j]

\* the hexagons are labelled in reverse order, two points of 10 and 20 were
\* summed into the second hexagon and the first hexagon stays unset
C5_Witness ==
    /\ Returned("merge_shape_hex")
    /\ args.agg = [c \in {"population_2015"} |-> "sum"]
    /\ Len(passed.hex) = 2
    /\ passed.hex[1].index = 1
    /\ ret[2].attrs["population_2015"] = <<30>>
    /\ ret[1].attrs["population_2015"] = NaN

\* C6: no operation mutates the dataset its caller passed in: after
\* filter_population, merge_shape_hex and osmnx_graph_download return, the
\* caller's datasets hold what they held at the call and the result is
\* another object.
C6_NoInputMutated ==
    (pc = "returned" /\ fn \in {"filter_population", "merge_shape_hex", "osmnx_graph_download"})
        => /\ heap = passed
           /\ fn = "osmnx_graph_download" => ret # <<"ref", "gdf">>

\* C6 as amended: filter_population and merge_shape_hex leave the datasets
\* passed in as they were; osmnx_graph_download returns the very dataset it
\* was given, whose rows keep their labels, geometries and the columns
\* that are not requested statistics.
C6_OnlyNetworkWritesInPlace ==
    /\ fn \in {"filter_population", "merge_shape_hex"} => heap = passed
    /\ Returned("osmnx_graph_download") =>
          /\ ret = <<"ref", "gdf">>
          /\ Len(heap.gdf) = Len(passed.gdf)
          /\ \A k \in DOMAIN passed.gdf :
                /\ heap.gdf[k].index = passed.gdf[k].index
                /\ heap.gdf[k].geometry = passed.gdf[k].geometry
                /\ \A c \in DOMAIN passed.gdf[k].attrs \ Requested :
                      heap.gdf[k].attrs[c] = passed.gdf[k].attrs[c]

\* merge_shape_hex returned a dataset with a new column while the caller's
\* hexagons are as passed
C6_Witness ==
    /\ Returned("merge_shape_hex")
    /\ heap.hex = passed.hex
    /\ ret # passed.hex
    /\ "population_2020" \in DOMAIN args.agg
    /\ \E k \in DOMAIN ret : ret[k].attrs["population_2020"] = <<21>>

\* the bounds of the reference polygons, taken over the set of them
RefBounds ==
    LET G == {passed.polygon_gdf[k] : k \in DOMAIN passed.polygon_gdf}
    IN  [minx |-> CHOOSE v \in {g.minx : g \in G} : \A g \in G : v <= g.minx,
         miny |-> CHOOSE v \in {g.miny : g \in G} : \A g \in G : v <= g.miny,
         maxx |-> CHOOSE v \in {g.maxx : g \in G} : \A g \in G : v >= g.maxx,
         maxy |-> CHOOSE v \in {g.maxy : g \in G} : \A g \in G : v >= g.maxy]

InBounds(r) == /\ RefBounds.minx <= r.longitude /\ r.longitude <= RefBounds.maxx
               /\ RefBounds.miny <= r.latitude /\ r.latitude <= RefBounds.maxy

\* C7: filter_population keeps a row if and only if its longitude and latitude
\* lie within the bounds of the reference polygons, both ends included, keeps
\* the kept rows in input order, and returns (an empty dataset when no row
\* qualifies) without error.
C7_BoundsFilter ==
    fn = "filter_population" =>
        /\ pc # "raised"
        /\ pc = "returned" =>
              /\ \A k \in DOMAIN passed.pop_df :
                    InBounds(passed.pop_df[k]) <=>
                        \E j \in DOMAIN ret :
                            /\ ret[j].index = passed.pop_df[k].index
                            /\ ret[j].longitude = passed.pop_df[k].longitude
                            /\ ret[j].latitude = passed.pop_df[k].latitude
                            /\ ret[j].population = passed.pop_df[k].population
              /\ Len(ret) = Cardinality({k \in DOMAIN passed.pop_df : InBounds(passed.pop_df[k])})
              /\ \A a, b \in DOMAIN ret : a < b => ret[a].index < ret[b].index
              /\ (\A k \in DOMAIN passed.pop_df : ~InBounds(passed.pop_df[k])) => ret = <<>>

\* of two points the first lies outside the bounds and is dropped, the second
\* lies on the upper corner of the bounds and is kept
C7_Witness ==
    /\ Returned("filter_population")
    /\ Len(passed.pop_df) = 2
    /\ Len(ret) = 1
    /\ ret[1].index = 1
    /\ ret[1].longitude = RefBounds.maxx
    /\ ret[1].latitude = RefBounds.maxy

MaxDuration == SeqMax(passed.durations)

\* C8: when every duration is <= 120 create_duration_labels returns the 7
\* default edges and the 6 default bins unmodified; when the maximum exceeds
\* 120 it returns the default edges extended by one edge, the ceiling of the
\* maximum, as the last edge.
C8_DefaultsUnmodified ==
    Returned("create_duration_labels") =>
        /\ MaxDuration <= 2 * 120 =>
              /\ ret.custom_bins = default_bins
              /\ ret.custom_labels = SubSeq(default_labels, 1, 6)
        /\ MaxDuration > 2 * 120 =>
              ret.custom_bins = Append(default_bins, Ceil(MaxDuration))

\* the default edges up to the first one that reaches m
EdgesUpTo(m) ==
    LET last == CHOOSE k \in DOMAIN default_bins :
                    /\ default_bins[k] >= m
                    /\ \A j \in 1..(k - 1) : default_bins[j] < m
    IN  SubSeq(default_bins, 1, last)

\* C8 as amended: when the maximum is above 90 and at most 120 the 7 default
\* edges and the 6 default bins come back unmodified; when it is at most 90
\* the default edges come back cut after the first edge that reaches the
\* ceiling of the maximum, with one bin fewer than edges; when the maximum
\* exceeds 120 the default edges come back extended by the ceiling of the
\* maximum as the last edge, with all 7 labels.
C8_DefaultsTruncatedOrExtended ==
    Returned("create_duration_labels") =>
        /\ (MaxDuration > 2 * 90 /\ MaxDuration <= 2 * 120) =>
              /\ ret.custom_bins = default_bins
              /\ ret.custom_labels = SubSeq(default_labels, 1, 6)
        /\ MaxDuration <= 2 * 90 =>
              /\ ret.custom_bins = EdgesUpTo(Ceil(MaxDuration))
              /\ ret.custom_labels = SubSeq(default_labels, 1, Len(ret.custom_bins) - 1)
        /\ MaxDuration > 2 * 120 =>
              /\ ret.custom_bins = Append(default_bins, Ceil(MaxDuration))
              /\ ret.custom_labels = default_labels

\* a maximum of 122.5 minutes gave the default edges and 123
C8_Witness ==
    /\ Returned("create_duration_labels")
    /\ MaxDuration = 245
    /\ Len(ret.custom_bins) = 8
    /\ ret.custom_bins[8] = 123

HexIds(frame) == {frame[k].id : k \in DOMAIN frame}

\* the cells h3_indexes lists more than once
ListedTwice ==
    LET l == h3_indexes(Explode(passed.city), args.resolution, args.descending)
    IN  {l[a] : a \in {x \in DOMAIN l : \E y \in DOMAIN l : y # x /\ l[y] = l[x]}}

\* C9: the cells gen_hexagons returns have pairwise distinct identifiers (also
\* when polygons share cells), they are the cells of the polyfills, and the
\* centroids are row-aligned with the cells: the same identifier and label
\* row by row, one centroid per cell.
C9_UniqueCellsAlignedCentroids ==
    Returned("gen_hexagons") =>
        LET hexs == ret.city_hexagons
            cens == ret.city_centroids
        IN  /\ \A a, b \in DOMAIN hexs : a # b => hexs[a].id # hexs[b].id
            /\ \A a, b \in DOMAIN cens : a # b => cens[a].id # cens[b].id
            /\ HexIds(hexs) = HexIds(cens)
            /\ Len(hexs) = Len(cens)
            /\ \A k \in DOMAIN hexs :
                  /\ cens[k].id = hexs[k].id
                  /\ cens[k].index = hexs[k].index
                  /\ cens[k].geometry = CentroidOf(hexs[k].id)
                  /\ hexs[k].geometry = BoundaryOf(hexs[k].id)
            /\ HexIds(hexs) = UNION {polyfill(Explode(passed.city)[k], args.resolution) :
                                        k \in DOMAIN Explode(passed.city)}

\* two polygons shared a cell, and two cells came back
C9_Witness ==
    /\ Returned("gen_hexagons")
    /\ ListedTwice # {}
    /\ Len(ret.city_hexagons) = 2
    /\ Len(ret.city_centroids) = 2
    /\ ret.city_hexagons[2].index > 1

\* C10: for every non-negative maximum duration the edges create_duration_labels
\* returns are strictly increasing, the last edge is at least the maximum, and
\* there is exactly one label fewer than edges.
C10_ValidBinsAndLabels ==
    Returned("create_duration_labels") =>
        /\ \A a, b \in DOMAIN ret.custom_bins : a < b => ret.custom_bins[a] < ret.custom_bins[b]
        /\ ret.custom_bins # <<>>
        /\ 2 * ret.custom_bins[Len(ret.custom_bins)] >= MaxDuration
        /\ Len(ret.custom_labels) = Len(ret.custom_bins) - 1

\* a maximum of 47.5 minutes gave the edges 0, 15, 30, 45, 60 and four labels
C10_Witness ==
    /\ Returned("create_duration_labels")
    /\ MaxDuration = 95
    /\ ret.custom_bins = <<0, 15, 30, 45, 60>>
    /\ Len(ret.custom_labels) = 4


(* ============================ specifications =========================== *)
Init == InitDurations \/ InitFilter \/ InitHexagons \/ InitMerge \/ InitNetwork

Next == CreateDurationLabels \/ FilterPopulation \/ GenHexagons \/ MergeShapeHex
        \/ NetworkRow \/ NetworkReturn

Spec == Init /\ [][Next]_vars

SpecDurations == InitDurations /\ [][CreateDurationLabels]_vars

SpecFilter == InitFilter /\ [][FilterPopulation]_vars

SpecHexagons == InitHexagons /\ [][GenHexagons]_vars

SpecMerge == InitMerge /\ [][MergeShapeHex]_vars

SpecDatasets ==
    /\ InitFilter \/ InitMerge \/ InitNetwork
    /\ [][FilterPopulation \/ MergeShapeHex \/ NetworkRow \/ NetworkReturn]_vars

SpecNetwork == InitNetwork /\ [][NetworkRow \/ NetworkReturn]_vars

====
